---- MODULE Spec2Model ----
(***************************************************************************)
(* Model of the Linux framebuffer backend of the Twin window system        *)
(* (src/backend/fbdev.c): device configuration, the VT switch handshake,   *)
(* the redisplay work function, and the backend life cycle.                *)
(***************************************************************************)
EXTENDS Integers, Sequences, FiniteSets, TLC

(* ---------------------------------------------------------------------- *)
(* Bounds                                                                  *)
(* ---------------------------------------------------------------------- *)

\* number of twin_fbdev_init calls explored in one process
MaxInits == 1
\* longest burst of switch signals counted by the burst observer
MaxBurst == 3
\* twin_fbdev_exit calls explored on one context
MaxExitCalls == 2

(* ---------------------------------------------------------------------- *)
(* Device formats                                                          *)
(* ---------------------------------------------------------------------- *)

Chan(o, l) == [offset |-> o, length |-> l]

L565 == [red |-> Chan(11, 5), green |-> Chan(5, 6), blue |-> Chan(0, 5)]
L888 == [red |-> Chan(16, 8), green |-> Chan(8, 8), blue |-> Chan(0, 8)]

Layouts == {L565, L888}
Depths == {8, 16, 24, 32}

\* what FBIOGET_VSCREENINFO may report: every depth with every layout
DevFormats ==
    {[bits_per_pixel |-> b, red |-> l.red, green |-> l.green, blue |-> l.blue] :
        b \in Depths, l \in Layouts}

\* fb_var of a calloc'ed twin_fbdev_t
ZeroVar ==
    [bits_per_pixel |-> 0, red |-> Chan(0, 0), green |-> Chan(0, 0),
     blue |-> Chan(0, 0)]

twin_fbdev_is_rgb565(v) ==
    /\ v.red.offset = 11 /\ v.red.length = 5
    /\ v.green.offset = 5 /\ v.green.length = 6
    /\ v.blue.offset = 0 /\ v.blue.length = 5

twin_fbdev_is_rgb888(v) ==
    /\ v.red.offset = 16 /\ v.red.length = 8
    /\ v.green.offset = 8 /\ v.green.length = 8
    /\ v.blue.offset = 0 /\ v.blue.length = 8

twin_fbdev_is_argb32(v) ==
    /\ v.red.offset = 16 /\ v.red.length = 8
    /\ v.green.offset = 8 /\ v.green.length = 8
    /\ v.blue.offset = 0 /\ v.blue.length = 8

\* the switch of twin_fbdev_apply_config: TRUE when it does not return false.
\* The default arm logs and breaks, so an unlisted depth passes.
FormatAccepted(v) ==
    CASE v.bits_per_pixel = 16 -> twin_fbdev_is_rgb565(v)
      [] v.bits_per_pixel = 24 -> twin_fbdev_is_rgb888(v)
      [] v.bits_per_pixel = 32 -> twin_fbdev_is_argb32(v)
      [] OTHER -> TRUE

\* outcomes of the system calls made by one twin_fbdev_apply_config call
ConfigFails == {"none", "get1", "put", "get2", "mmap"}
\* a failing first query reports no format
ConfigInputs ==
    {in \in [fail : ConfigFails, fmt : DevFormats \cup {ZeroVar}] :
        in.fail = "get1" <=> in.fmt = ZeroVar}

\* twin_fbdev_apply_config(tx) on the fields it reads and writes:
\* var/base are tx->fb_var and tx->fb_base, maps the live mappings of the
\* process, in the outcomes of the system calls.
twin_fbdev_apply_config(var, base, maps, in) ==
    IF in.fail = "get1"
    THEN [ok |-> FALSE, fb_var |-> var, fb_base |-> base, maps |-> maps]
    ELSE IF in.fail \in {"put", "get2"}
    THEN [ok |-> FALSE, fb_var |-> in.fmt, fb_base |-> base, maps |-> maps]
    ELSE IF ~FormatAccepted(in.fmt)
    THEN [ok |-> FALSE, fb_var |-> in.fmt, fb_base |-> base, maps |-> maps]
    ELSE IF in.fail = "mmap"
    THEN [ok |-> FALSE, fb_var |-> in.fmt, fb_base |-> "MAP_FAILED",
          maps |-> maps]
    ELSE [ok |-> TRUE, fb_var |-> in.fmt, fb_base |-> "MAPPED",
          maps |-> maps + 1]


(* ---------------------------------------------------------------------- *)
(* State                                                                   *)
(* ---------------------------------------------------------------------- *)

SIGUSR1 == 10

VARIABLES
    ctx,                \* the caller's twin_context_t *: "null", "live", "freed"
    mem,                \* heap blocks of the latest init: ctx and ctx->priv
    fb_fd, vt_fd,       \* descriptors: "unset", "open", "closed"
    vt_swsig,           \* tx->vt_swsig
    old_kbmode, old_tio,\* tx->old_kbmode, tx->old_tio
    vt_active,          \* tx->vt_active
    fb_var,             \* tx->fb_var
    fb_base,            \* tx->fb_base: "NULL", "MAP_FAILED", "MAPPED"
    input,              \* tx->input: "none", "live", "destroyed"
    screen,             \* ctx->screen: "none", "live", "destroyed"
    put_span,           \* the span writer bound to the screen
    damaged,            \* twin_screen_damaged(screen)
    work_ctx,           \* twin_fbdev_work registered with this ctx
    damaged_ctx,        \* twin_fbdev_damaged registered with this ctx
    vt_switch_pending,  \* the file-scope flag
    sighandler,         \* disposition of SIGUSR1: "dfl", "vtswitch", "ign"
    console,            \* kernel side: kdmode, kbmode, tio, vtmode
    stdin_console,      \* descriptor 0 (the value of tx->vx_fd) is the console
    liveMaps,           \* live framebuffer mappings of the process
    pc,                 \* position of twin_fbdev_work: "idle", "switch", "clear"
    crashed,            \* the process was killed by a wild access
    inits,              \* twin_fbdev_init calls explored so far
    exit_calls,         \* twin_fbdev_exit calls since the latest init
    init_result,        \* outcome of the latest init: "ok" or the failing step
    calls,              \* release calls issued since the latest init
    span_log,           \* the latest span-writer invocation
    last_damage,        \* the latest damage request: "none", "partial", "full"
    last_ack,           \* the latest VT_RELDISP argument: "none", "rel", "acq"
    trace,              \* alternating signals and ticks since the latest init
    burst,              \* observer of one burst of signals and its ticks
    obs,                \* observer of the latest switch, configure and signal
    probe               \* input and result of one pure computation

vars ==
    <<ctx, mem, fb_fd, vt_fd, vt_swsig, old_kbmode, old_tio, vt_active, fb_var,
      fb_base, input, screen, put_span, damaged, work_ctx, damaged_ctx,
      vt_switch_pending, sighandler, console, stdin_console, liveMaps, pc,
      crashed, inits, exit_calls, init_result, calls, span_log, last_damage,
      last_ack, trace, burst, obs, probe>>

\* everything but the probe
stateVars ==
    <<ctx, mem, fb_fd, vt_fd, vt_swsig, old_kbmode, old_tio, vt_active, fb_var,
      fb_base, input, screen, put_span, damaged, work_ctx, damaged_ctx,
      vt_switch_pending, sighandler, console, stdin_console, liveMaps, pc,
      crashed, inits, exit_calls, init_result, calls, span_log, last_damage,
      last_ack, trace, burst, obs>>

\* the fields of a calloc'ed context, and the observers of one context
txVars ==
    <<fb_fd, vt_fd, vt_swsig, old_kbmode, old_tio, vt_active, fb_var, fb_base,
      input>>
screenVars == <<screen, put_span, damaged, work_ctx, damaged_ctx>>
osVars == <<sighandler, console, stdin_console>>
lifeVars == <<ctx, mem, inits, exit_calls, init_result>>

MaxTrace == 4

NoCalls ==
    [kd_text |-> 0, munmap |-> 0, munmap_live |-> 0, input_destroy |-> 0,
     close_vt |-> 0, close_fb |-> 0, free_priv |-> 0, free_ctx |-> 0]
NoSpan == [via |-> "none", active |-> FALSE, base |-> "NULL"]
NoBurst == [n |-> 0, k |-> 0, t |-> 0, from |-> "none"]
TextConsole ==
    [kdmode |-> "text", kbmode |-> "orig", tio |-> "orig", vtmode |-> "auto"]
\* switch: outcome of the latest twin_fbdev_switch; unmapped: it called munmap;
\* ioctl: VT state at the latest twin_fbdev_get_screen_size; midsig: a signal
\* arrived inside the running tick
NoObs ==
    [switch |-> "none", unmapped |-> FALSE, ioctl |-> "none", midsig |-> FALSE]
NoProbe == [op |-> "none"]

\* the state of the process before the first twin_fbdev_init
InitState ==
    /\ ctx = "null"
    /\ mem = [ctx |-> "none", priv |-> "none"]
    /\ fb_fd = "unset" /\ vt_fd = "unset" /\ vt_swsig = 0
    /\ old_kbmode = "unset" /\ old_tio = "unset"
    /\ vt_active = FALSE
    /\ fb_var = ZeroVar
    /\ fb_base = "NULL"
    /\ input = "none"
    /\ screen = "none" /\ put_span = "none" /\ damaged = FALSE
    /\ work_ctx = FALSE /\ damaged_ctx = FALSE
    /\ vt_switch_pending = FALSE
    /\ sighandler = "dfl"
    /\ console = TextConsole
    /\ stdin_console \in BOOLEAN
    /\ liveMaps = 0
    /\ pc = "idle"
    /\ crashed = FALSE
    /\ inits = 0
    /\ exit_calls = 0
    /\ init_result = "none"
    /\ calls = NoCalls
    /\ span_log = NoSpan
    /\ last_damage = "none"
    /\ last_ack = "none"
    /\ trace = <<>>
    /\ burst = NoBurst
    /\ obs = NoObs

Init == InitState /\ probe = NoProbe


(* ---------------------------------------------------------------------- *)
(* Flushing                                                                *)
(* ---------------------------------------------------------------------- *)

\* fbdev_put_spans[] of twin_fbdev_init
fbdev_put_spans == <<"span16", "span24", "span32">>

\* fbdev_put_spans[bits_per_pixel / 8 - 2]: an index outside the table reads
\* whatever lies next to it, so any writer or a wild pointer may result
PutSpans(bpp) ==
    LET idx == (bpp \div 8) - 2
    IN  IF idx \in 0..2 THEN {fbdev_put_spans[idx + 1]}
        ELSE {"span16", "span24", "span32", "wild"}

\* _twin_fbdev_put_span##bpp stores through tx->fb_base + off: the store is
\* a wild access unless the base is a live mapping and the writer is one of
\* the three functions
SpanIsWild(ps, base) == ps = "wild" \/ base # "MAPPED"

\* twin_screen_update on a damaged screen: the damaged rows go through the
\* span writer and the damage is cleared
SpanCall(via) == [via |-> via, active |-> vt_active, base |-> fb_base]

(* ---------------------------------------------------------------------- *)
(* twin_fbdev_init                                                         *)
(* ---------------------------------------------------------------------- *)

InitSteps ==
    <<"ctx", "priv", "open", "vt_setup", "getmode", "setmode", "apply",
      "input", "none">>
Rank(step) == CHOOSE i \in 1..Len(InitSteps) : InitSteps[i] = step
\* the steps whose failure is an input of the call; "apply" fails through
\* the outcome of twin_fbdev_apply_config
InitFails == {"ctx", "priv", "open", "vt_setup", "getmode", "setmode",
              "input", "none"}

\* twin_fbdev_setup_vt once VT_SETMODE succeeded: save and change the
\* terminal; KDSETMODE goes to tx->vx_fd, which calloc left at 0
SetupConsole(c, stdinIsConsole) ==
    [kdmode |-> IF stdinIsConsole THEN "graphics" ELSE c.kdmode,
     kbmode |-> "mediumraw", tio |-> "raw", vtmode |-> "process"]

\* the step at which the call fails: inputs fail the steps before and after
\* twin_fbdev_apply_config, the configuration outcome fails "apply"
FailingStep(step, cfgok) ==
    IF Rank(step) < Rank("apply") THEN step
    ELSE IF ~cfgok THEN "apply"
    ELSE step

\* a variant that registers the callbacks before the input system is created
InitRegisters_Early(f) == f \in {"none", "input"}

\* twin_set_work and twin_screen_register_damaged are the last statements
\* before "return ctx"
InitRegisters(f) == f = "none"

\* the inputs one call consumes: no configuration outcome when the call
\* fails before twin_fbdev_apply_config, no writer when no screen is created
InitConfigs(step) ==
    IF Rank(step) < Rank("apply")
    THEN {[fail |-> "get1", fmt |-> ZeroVar]}
    ELSE ConfigInputs
InitSpans(step, cfg) ==
    LET r == twin_fbdev_apply_config(ZeroVar, "NULL", 0, cfg)
    IN  IF Rank(FailingStep(step, r.ok)) >= Rank("input")
        THEN PutSpans(r.fb_var.bits_per_pixel)
        ELSE {"none"}

twin_fbdev_init(step, cfg, ps) ==
    LET r == twin_fbdev_apply_config(ZeroVar, "NULL", liveMaps, cfg)
        f == FailingStep(step, r.ok)
        k == Rank(f)
    IN  /\ ctx # "live" /\ pc = "idle" /\ ~crashed
        /\ inits < MaxInits
        /\ inits' = inits + 1
        /\ init_result' = IF f = "none" THEN "ok" ELSE f
        /\ ctx' = IF f = "none" THEN "live" ELSE "null"
        /\ mem' = CASE f = "ctx" -> [ctx |-> "none", priv |-> "none"]
                    [] f = "priv" -> [ctx |-> "alloc", priv |-> "none"]
                    [] f = "none" -> [ctx |-> "alloc", priv |-> "alloc"]
                    [] OTHER -> [ctx |-> "freed", priv |-> "freed"]
        /\ fb_fd' = IF k <= Rank("open") THEN "unset"
                    ELSE IF f = "none" THEN "open" ELSE "closed"
        /\ vt_fd' = IF k <= Rank("vt_setup") THEN "unset"
                    ELSE IF f = "none" THEN "open" ELSE "closed"
        /\ vt_swsig' = IF k >= Rank("setmode") THEN SIGUSR1 ELSE 0
        /\ sighandler' = IF k < Rank("setmode") THEN sighandler
                         ELSE IF f = "setmode" THEN "ign" ELSE "vtswitch"
        /\ old_tio' = IF k > Rank("setmode") THEN console.tio ELSE "unset"
        /\ old_kbmode' = IF k > Rank("setmode") THEN console.kbmode
                         ELSE "unset"
        /\ console' = IF k > Rank("setmode")
                      THEN SetupConsole(console, stdin_console) ELSE console
        /\ vt_active' = FALSE
        /\ fb_var' = IF k >= Rank("apply") THEN r.fb_var ELSE ZeroVar
        /\ fb_base' = IF k >= Rank("apply") THEN r.fb_base ELSE "NULL"
        /\ liveMaps' = IF k >= Rank("apply") THEN r.maps ELSE liveMaps
        /\ put_span' = ps
        /\ screen' = IF k < Rank("input") THEN "none"
                     ELSE IF f = "input" THEN "destroyed" ELSE "live"
        /\ damaged' = FALSE
        /\ input' = IF f = "none" THEN "live" ELSE "none"
        /\ work_ctx' = InitRegisters(f)
        /\ damaged_ctx' = InitRegisters(f)
        /\ exit_calls' = 0
        /\ calls' = NoCalls
        /\ span_log' = NoSpan
        /\ last_damage' = "none"
        /\ last_ack' = "none"
        /\ trace' = <<>>
        /\ burst' = NoBurst
        /\ obs' = NoObs
        /\ UNCHANGED <<vt_switch_pending, stdin_console, pc, crashed, probe>>


(* ---------------------------------------------------------------------- *)
(* VT switching                                                            *)
(* ---------------------------------------------------------------------- *)

\* tx->screen: zeroed by calloc and assigned nowhere; twin_fbdev_init stores
\* the screen it creates in ctx->screen only
tx_screen == "none"

\* a variant that calls munmap without testing the pointer
twin_fbdev_switch_Unguarded(activate, active, var, base, maps, scr, cfg) ==
    IF activate
    THEN LET r == twin_fbdev_apply_config(var, base, maps, cfg)
         IN  [vt_active |-> TRUE, fb_var |-> r.fb_var, fb_base |-> r.fb_base,
              maps |-> r.maps, ack |-> "acq",
              damage |-> r.ok /\ scr = "live",
              ok |-> r.ok, unmapped |-> FALSE]
    ELSE [vt_active |-> FALSE, fb_var |-> var,
          fb_base |-> "MAP_FAILED",
          maps |-> IF base = "MAPPED" THEN maps - 1 ELSE maps,
          ack |-> "rel", damage |-> FALSE,
          ok |-> TRUE, unmapped |-> TRUE]

\* twin_fbdev_switch(tx, activate) on the fields it reads and writes.
\* damage: the whole screen was passed to twin_screen_damage; ok: the
\* configuration was applied; unmapped: munmap was called.
twin_fbdev_switch(activate, active, var, base, maps, scr, cfg) ==
    IF activate
    THEN LET r == twin_fbdev_apply_config(var, base, maps, cfg)
         IN  [vt_active |-> TRUE, fb_var |-> r.fb_var, fb_base |-> r.fb_base,
              maps |-> r.maps, ack |-> "acq",
              damage |-> r.ok /\ scr = "live",
              ok |-> r.ok, unmapped |-> FALSE]
    ELSE [vt_active |-> FALSE, fb_var |-> var,
          fb_base |-> "MAP_FAILED",
          maps |-> IF base = "MAPPED" THEN maps - 1 ELSE maps,
          ack |-> "rel", damage |-> FALSE,
          ok |-> TRUE, unmapped |-> base # "MAP_FAILED"]

\* twin_fbdev_damaged: flush at once when the VT is active
NotifyFlushes(active, scr, dmg) == active /\ scr = "live" /\ dmg

\* twin_fbdev_work flushes whenever the screen is damaged
WorkFlushes(dmg) == dmg

\* a variant that never looks at the flag
WorkSwitches_Never(pending) == FALSE

\* a variant that switches on every tick
WorkSwitches_Always(pending) == TRUE

\* twin_fbdev_work switches when the flag is set
WorkSwitches(pending) == pending

(* observers *)

\* the trace follows alternating signals and ticks from init on
Log(e) ==
    IF /\ trace # <<"void">> /\ Len(trace) < MaxTrace
       /\ e = (IF Len(trace) % 2 = 0 THEN "sig" ELSE "tick")
    THEN Append(trace, e)
    ELSE <<"void">>

IsForeground == vt_active /\ fb_base = "MAPPED"
IsBackground == ~vt_active /\ fb_base = "MAP_FAILED"

\* a signal delivered between ticks starts or extends a burst
BurstSignal ==
    IF burst.n = 0 \/ burst.k > 0
    THEN IF IsForeground /\ ~vt_switch_pending
         THEN [n |-> 1, k |-> 0, t |-> 0, from |-> "fg"]
         ELSE NoBurst
    ELSE [burst EXCEPT !.n = @ + 1]

\* a tick that ran to its end is counted while the burst is being served
BurstTick(b) ==
    IF b.n > 0 /\ b.k < b.n THEN [b EXCEPT !.k = @ + 1] ELSE b
BurstTransition ==
    IF burst.n > 0 /\ burst.k < burst.n THEN [burst EXCEPT !.t = @ + 1]
    ELSE burst

\* a variant of the handler that performs the switch itself
twin_fbdev_vtswitch_Switching ==
    /\ sighandler = "vtswitch" /\ ~crashed
    /\ ctx = "live" /\ pc = "idle" /\ burst.n > 0 /\ burst.k = 0
          => burst.n < MaxBurst
    /\ vt_switch_pending' = TRUE
    /\ vt_active' = ~vt_active
    /\ IF ctx = "live" /\ pc = "idle"
       THEN burst' = BurstSignal /\ trace' = Log("sig")
       ELSE burst' = NoBurst /\ trace' = <<"void">>
    /\ obs' = IF ctx = "live" /\ pc # "idle" THEN [obs EXCEPT !.midsig = TRUE]
              ELSE obs
    /\ UNCHANGED <<fb_fd, vt_fd, vt_swsig, old_kbmode, old_tio, fb_var,
                   fb_base, input, screenVars, osVars, lifeVars, liveMaps, pc,
                   crashed, calls, span_log, last_damage, last_ack, probe>>

\* twin_fbdev_vtswitch: re-install the handler, set the flag
twin_fbdev_vtswitch ==
    /\ sighandler = "vtswitch" /\ ~crashed
    /\ ctx = "live" /\ pc = "idle" /\ burst.n > 0 /\ burst.k = 0
          => burst.n < MaxBurst
    /\ vt_switch_pending' = TRUE
    /\ IF ctx = "live" /\ pc = "idle"
       THEN burst' = BurstSignal /\ trace' = Log("sig")
       ELSE burst' = NoBurst /\ trace' = <<"void">>
    /\ obs' = IF ctx = "live" /\ pc # "idle" THEN [obs EXCEPT !.midsig = TRUE]
              ELSE obs
    /\ UNCHANGED <<txVars, screenVars, osVars, lifeVars, liveMaps, pc, crashed,
                   calls, span_log, last_damage, last_ack, probe>>

\* twin_fbdev_work, first part: flush the damage, then test the flag
WorkFlushAndTest(crash) ==
    /\ ctx = "live" /\ work_ctx /\ pc = "idle" /\ ~crashed
    /\ IF WorkFlushes(damaged)
       THEN /\ span_log' = SpanCall("tick")
            /\ damaged' = FALSE
            /\ crash \in (IF SpanIsWild(put_span, fb_base) THEN BOOLEAN
                          ELSE {FALSE})
       ELSE /\ crash = FALSE
            /\ UNCHANGED <<span_log, damaged>>
    /\ crashed' = crash
    /\ pc' = IF ~crash /\ WorkSwitches(vt_switch_pending) THEN "switch"
             ELSE "idle"
    /\ IF ~crash /\ ~WorkSwitches(vt_switch_pending)
       THEN burst' = BurstTick(burst) /\ trace' = Log("tick")
       ELSE UNCHANGED <<burst, trace>>
    /\ UNCHANGED <<txVars, screen, put_span, work_ctx, damaged_ctx, osVars,
                   lifeVars, liveMaps, vt_switch_pending, calls, last_damage,
                   last_ack, obs, probe>>

\* a variant whose switch forgets the switch signal
WorkSwitch_DropsSignal(cfg, crash) ==
    /\ pc = "switch" /\ ~crashed
    /\ LET r == twin_fbdev_switch(~vt_active, vt_active, fb_var, fb_base,
                                  liveMaps, tx_screen, cfg)
           flush == r.damage /\ damaged_ctx
                      /\ NotifyFlushes(r.vt_active, screen, TRUE)
       IN  /\ vt_active' = r.vt_active
           /\ fb_var' = r.fb_var
           /\ fb_base' = r.fb_base
           /\ liveMaps' = r.maps
           /\ last_ack' = r.ack
           /\ last_damage' = IF r.damage THEN "full" ELSE last_damage
           /\ damaged' = IF r.damage THEN ~flush ELSE damaged
           /\ span_log' = IF flush
                          THEN [via |-> "notify", active |-> r.vt_active,
                                base |-> r.fb_base]
                          ELSE span_log
           /\ crash \in (IF flush /\ SpanIsWild(put_span, r.fb_base)
                         THEN BOOLEAN ELSE {FALSE})
           /\ crashed' = crash
           /\ obs' = [obs EXCEPT
                        !.switch = IF r.ack = "rel" THEN "to_bg"
                                   ELSE IF r.ok THEN "to_fg" ELSE "fg_failed",
                        !.unmapped = r.unmapped]
    /\ pc' = "clear"
    /\ burst' = BurstTransition
    /\ vt_swsig' = 0
    /\ UNCHANGED <<fb_fd, vt_fd, old_kbmode, old_tio, input, screen,
                   put_span, work_ctx, damaged_ctx, osVars, lifeVars,
                   vt_switch_pending, calls, trace, probe>>

\* twin_fbdev_work, second part: twin_fbdev_switch(tx, !tx->vt_active); the
\* damage it records on activation reaches twin_fbdev_damaged at once
WorkSwitch(cfg, crash) ==
    /\ pc = "switch" /\ ~crashed
    /\ LET r == twin_fbdev_switch(~vt_active, vt_active, fb_var, fb_base,
                                  liveMaps, tx_screen, cfg)
           flush == r.damage /\ damaged_ctx
                      /\ NotifyFlushes(r.vt_active, screen, TRUE)
       IN  /\ vt_active' = r.vt_active
           /\ fb_var' = r.fb_var
           /\ fb_base' = r.fb_base
           /\ liveMaps' = r.maps
           /\ last_ack' = r.ack
           /\ last_damage' = IF r.damage THEN "full" ELSE last_damage
           /\ damaged' = IF r.damage THEN ~flush ELSE damaged
           /\ span_log' = IF flush
                          THEN [via |-> "notify", active |-> r.vt_active,
                                base |-> r.fb_base]
                          ELSE span_log
           /\ crash \in (IF flush /\ SpanIsWild(put_span, r.fb_base)
                         THEN BOOLEAN ELSE {FALSE})
           /\ crashed' = crash
           /\ obs' = [obs EXCEPT
                        !.switch = IF r.ack = "rel" THEN "to_bg"
                                   ELSE IF r.ok THEN "to_fg" ELSE "fg_failed",
                        !.unmapped = r.unmapped]
    /\ pc' = "clear"
    /\ burst' = BurstTransition
    /\ UNCHANGED <<fb_fd, vt_fd, vt_swsig, old_kbmode, old_tio, input, screen,
                   put_span, work_ctx, damaged_ctx, osVars, lifeVars,
                   vt_switch_pending, calls, trace, probe>>

\* twin_fbdev_work, last part: vt_switch_pending = false; return
WorkClear ==
    /\ pc = "clear" /\ ~crashed
    /\ vt_switch_pending' = FALSE
    /\ pc' = "idle"
    /\ burst' = BurstTick(burst)
    /\ trace' = Log("tick")
    /\ obs' = [obs EXCEPT !.midsig = FALSE]
    /\ UNCHANGED <<txVars, screenVars, osVars, lifeVars, liveMaps, crashed,
                   calls, span_log, last_damage, last_ack, probe>>


(* ---------------------------------------------------------------------- *)
(* Damage from the clients                                                 *)
(* ---------------------------------------------------------------------- *)

\* twin_screen_damage by a client between ticks; the screen calls the
\* registered twin_fbdev_damaged synchronously
Damage(crash) ==
    /\ ctx = "live" /\ screen = "live" /\ pc = "idle" /\ ~crashed
    /\ last_damage' = "partial"
    /\ IF damaged_ctx /\ NotifyFlushes(vt_active, screen, TRUE)
       THEN /\ damaged' = FALSE
            /\ span_log' = SpanCall("notify")
            /\ crash \in (IF SpanIsWild(put_span, fb_base) THEN BOOLEAN
                          ELSE {FALSE})
       ELSE /\ damaged' = TRUE
            /\ crash = FALSE
            /\ UNCHANGED span_log
    /\ crashed' = crash
    /\ trace' = Log("damage")
    /\ UNCHANGED <<txVars, screen, put_span, work_ctx, damaged_ctx, osVars,
                   lifeVars, liveMaps, vt_switch_pending, pc, calls, last_ack,
                   burst, obs, probe>>

(* ---------------------------------------------------------------------- *)
(* twin_fbdev_configure                                                    *)
(* ---------------------------------------------------------------------- *)

\* twin_fbdev_get_screen_size: FBIOGET_VSCREENINFO on tx->fb_fd, whatever
\* the VT state. The result names the state the ioctl was issued in: "fg"
\* with vt_active set, "bg" after a release, "init" before the first switch.
ScreenSizeIoctl(active, base) ==
    IF active THEN "fg" ELSE IF base = "MAP_FAILED" THEN "bg" ELSE "init"

\* twin_fbdev_configure(ctx): query the size, resize the screen
twin_fbdev_configure ==
    /\ ctx = "live" /\ pc = "idle" /\ ~crashed
    /\ obs' = [obs EXCEPT !.ioctl = ScreenSizeIoctl(vt_active, fb_base)]
    /\ UNCHANGED <<txVars, screenVars, osVars, lifeVars, liveMaps,
                   vt_switch_pending, pc, crashed, calls, span_log,
                   last_damage, last_ack, trace, burst, probe>>

(* ---------------------------------------------------------------------- *)
(* twin_fbdev_exit                                                         *)
(* ---------------------------------------------------------------------- *)

\* twin_vt_mode(fd, KD_TEXT): KDSETMODE on the VT descriptor
twin_vt_mode(c, fd) ==
    IF fd = "open" THEN [c EXCEPT !.kdmode = "text"] ELSE c

\* the release calls of twin_fbdev_exit, none of them guarded
ExitCalls(c, base) ==
    [c EXCEPT !.kd_text = @ + 1,
              !.munmap = @ + 1,
              !.munmap_live = IF base = "MAPPED" THEN @ + 1 ELSE @,
              !.input_destroy = @ + 1,
              !.close_vt = @ + 1,
              !.close_fb = @ + 1,
              !.free_priv = @ + 1,
              !.free_ctx = @ + 1]

\* twin_fbdev_exit(ctx) on a context returned by init
twin_fbdev_exit ==
    /\ ctx = "live" /\ pc = "idle" /\ ~crashed
    /\ exit_calls < MaxExitCalls
    /\ exit_calls' = exit_calls + 1
    /\ console' = twin_vt_mode(console, vt_fd)
    /\ calls' = ExitCalls(calls, fb_base)
    /\ liveMaps' = IF fb_base = "MAPPED" THEN liveMaps - 1 ELSE liveMaps
    /\ input' = "destroyed"
    /\ vt_fd' = "closed"
    /\ fb_fd' = "closed"
    /\ mem' = [ctx |-> "freed", priv |-> "freed"]
    /\ ctx' = "freed"
    \* the observers of the context end with it
    /\ span_log' = NoSpan /\ last_damage' = "none" /\ last_ack' = "none"
    /\ trace' = <<"void">> /\ burst' = NoBurst /\ obs' = NoObs
    /\ UNCHANGED <<vt_swsig, old_kbmode, old_tio, vt_active, fb_var, fb_base,
                   screenVars, sighandler, stdin_console, vt_switch_pending,
                   pc, crashed, inits, init_result, probe>>

\* twin_fbdev_exit(NULL): the only guarded case
ExitNull ==
    /\ ctx = "null" /\ pc = "idle" /\ ~crashed
    /\ exit_calls < MaxExitCalls
    /\ exit_calls' = exit_calls + 1
    /\ UNCHANGED <<ctx, mem, inits, init_result, txVars, screenVars, osVars,
                   liveMaps, vt_switch_pending, pc, crashed, calls, span_log,
                   last_damage, last_ack, trace, burst, obs, probe>>

\* twin_fbdev_exit(ctx) on a context already freed: ctx is not NULL, so the
\* body runs on freed memory. Either the stale fields are still readable and
\* every release call is issued again, or the access kills the process.
ExitAgain(crash) ==
    /\ ctx = "freed" /\ pc = "idle" /\ ~crashed
    /\ exit_calls < MaxExitCalls
    /\ exit_calls' = exit_calls + 1
    /\ crash \in BOOLEAN
    /\ crashed' = crash
    /\ calls' = IF crash THEN calls ELSE ExitCalls(calls, "MAP_FAILED")
    /\ UNCHANGED <<ctx, mem, inits, init_result, txVars, screenVars, osVars,
                   liveMaps, vt_switch_pending, pc, span_log, last_damage,
                   last_ack, trace, burst, obs, probe>>

(* ---------------------------------------------------------------------- *)
(* Specification                                                           *)
(* ---------------------------------------------------------------------- *)

Next ==
    \/ \E step \in InitFails : \E cfg \in InitConfigs(step) :
          \E ps \in InitSpans(step, cfg) : twin_fbdev_init(step, cfg, ps)
    \/ twin_fbdev_vtswitch
    \/ \E crash \in BOOLEAN : WorkFlushAndTest(crash)
    \/ \E cfg \in ConfigInputs, crash \in BOOLEAN : WorkSwitch(cfg, crash)
    \/ WorkClear
    \/ \E crash \in BOOLEAN : Damage(crash)
    \/ twin_fbdev_configure
    \/ twin_fbdev_exit
    \/ ExitNull
    \/ \E crash \in BOOLEAN : ExitAgain(crash)

Spec == Init /\ [][Next]_vars

\* one step of twin_fbdev_work
Tick ==
    \/ \E crash \in BOOLEAN : WorkFlushAndTest(crash)
    \/ \E cfg \in ConfigInputs, crash \in BOOLEAN : WorkSwitch(cfg, crash)
    \/ WorkClear

\* the running backend and what reaches the flag: initialisation, signals,
\* ticks, damage from the clients, and exit
NextFair ==
    \/ \E cfg \in InitConfigs("none") : \E ps \in InitSpans("none", cfg) :
          twin_fbdev_init("none", cfg, ps)
    \/ twin_fbdev_vtswitch
    \/ Tick
    \/ \E crash \in BOOLEAN : Damage(crash)
    \/ twin_fbdev_exit

\* the main loop keeps calling the work function registered by twin_set_work
SpecFair == Init /\ [][NextFair]_vars /\ WF_vars(Tick)


\* the process after one successful twin_fbdev_init (32 bpp) followed by
\* twin_fbdev_exit: the handler is still installed, the console was left in
\* raw mode, the blocks are freed and hold their last contents
AfterExit ==
    /\ ctx = "freed"
    /\ mem = [ctx |-> "freed", priv |-> "freed"]
    /\ fb_fd = "closed" /\ vt_fd = "closed" /\ vt_swsig = SIGUSR1
    /\ old_kbmode = "orig" /\ old_tio = "orig"
    /\ vt_active = FALSE
    /\ fb_var = [bits_per_pixel |-> 32, red |-> L888.red,
                 green |-> L888.green, blue |-> L888.blue]
    /\ fb_base = "MAPPED"
    /\ input = "destroyed"
    /\ screen = "live" /\ put_span = "span32" /\ damaged = FALSE
    /\ work_ctx = TRUE /\ damaged_ctx = TRUE
    /\ vt_switch_pending = FALSE
    /\ sighandler = "vtswitch"
    /\ console = twin_vt_mode(SetupConsole(TextConsole, stdin_console),
                              "open")
    /\ liveMaps = 0
    /\ pc = "idle"
    /\ crashed = FALSE
    /\ exit_calls = 1
    /\ init_result = "ok"
    /\ calls = ExitCalls(NoCalls, "MAPPED")
    /\ span_log = NoSpan
    /\ last_damage = "none"
    /\ last_ack = "none"
    /\ trace = <<"void">>
    /\ burst = NoBurst
    /\ obs = NoObs

\* a second life of the backend in the same process
InitAgain ==
    /\ stdin_console \in BOOLEAN
    /\ AfterExit
    /\ inits = 0
    /\ probe = NoProbe

NextAgain ==
    \/ \E step \in InitFails : \E cfg \in InitConfigs(step) :
          \E ps \in InitSpans(step, cfg) : twin_fbdev_init(step, cfg, ps)
    \/ twin_fbdev_vtswitch
    \/ Tick
    \/ twin_fbdev_exit

SpecAgain == InitAgain /\ [][NextAgain]_vars


(* ---------------------------------------------------------------------- *)
(* The mapping length                                                      *)
(* ---------------------------------------------------------------------- *)

\* width of size_t and off_t, scaled down with the ranges below: as on an
\* LP64 build it exceeds the width of the 32-bit smem_len
SizeBits == 6
\* largest smem_start and smem_len reported by FBIOGET_FSCREENINFO
MaxSmemStart == 17
MaxSmemLen == 12
\* values of getpagesize()
PageSizes == {2, 4, 8}

RECURSIVE BitAnd(_, _)
\* a & b on naturals
BitAnd(a, b) ==
    IF a = 0 \/ b = 0 THEN 0
    ELSE (a % 2) * (b % 2) + 2 * BitAnd(a \div 2, b \div 2)

\* ~a in the width of size_t
BitNot(a) == (2 ^ SizeBits) - 1 - a

\* a variant that masks without adding pgsize - 1 first
MappedLength_NoRound(smem_start, smem_len, pgsize) ==
    LET start == BitAnd(smem_start, pgsize - 1)
        len == (start + smem_len) % (2 ^ SizeBits)
    IN  BitAnd(len, BitNot(pgsize - 1))

\* tx->fb_len as twin_fbdev_apply_config computes it
MappedLength(smem_start, smem_len, pgsize) ==
    LET start == BitAnd(smem_start, pgsize - 1)
        len == (start + smem_len + (pgsize - 1)) % (2 ^ SizeBits)
    IN  BitAnd(len, BitNot(pgsize - 1))

AlignInputs ==
    [op : {"align_in"}, smem_start : 0..MaxSmemStart, smem_len : 0..MaxSmemLen,
     pgsize : PageSizes]

InitAlign == InitState /\ probe \in AlignInputs

\* the length computation of one twin_fbdev_apply_config call
ComputeLength ==
    /\ probe.op = "align_in"
    /\ probe' = [op |-> "align_out", smem_start |-> probe.smem_start,
                 smem_len |-> probe.smem_len, pgsize |-> probe.pgsize,
                 fb_len |-> MappedLength(probe.smem_start, probe.smem_len,
                                         probe.pgsize)]
    /\ UNCHANGED stateVars

NextAlign == ComputeLength

SpecAlign == InitAlign /\ [][NextAlign]_vars

(* ---------------------------------------------------------------------- *)
(* The span writers                                                        *)
(* ---------------------------------------------------------------------- *)

\* longest span given to a writer
MaxSpan == 2

\* a 32-bit word as two 16-bit halves
Word(h, l) == [hi |-> h, lo |-> l]

RECURSIVE BitOr(_, _)
\* a | b on naturals
BitOr(a, b) ==
    IF a = 0 THEN b
    ELSE IF b = 0 THEN a
    ELSE (IF a % 2 = 1 \/ b % 2 = 1 THEN 1 ELSE 0)
           + 2 * BitOr(a \div 2, b \div 2)

WordAnd(w, m) == Word(BitAnd(w.hi, m.hi), BitAnd(w.lo, m.lo))
WordOr(w, m) == Word(BitOr(w.hi, m.hi), BitOr(w.lo, m.lo))
\* w >> n for n < 16
WordShr(w, n) ==
    Word(w.hi \div (2 ^ n),
         (w.hi % (2 ^ n)) * (2 ^ (16 - n)) + (w.lo \div (2 ^ n)))

\* a variant with the green mask 0x0000f800
RGB565_NarrowGreen(p) ==
    WordOr(WordOr(WordShr(WordAnd(p, Word(248, 0)), 8),
                  WordShr(WordAnd(p, Word(0, 63488)), 5)),
           WordShr(WordAnd(p, Word(0, 248)), 3))

\* one element of ARGB32_TO_RGB565_PERLINE: masks 0x00f80000, 0x0000fc00,
\* 0x000000f8
RGB565(p) ==
    WordOr(WordOr(WordShr(WordAnd(p, Word(248, 0)), 8),
                  WordShr(WordAnd(p, Word(0, 64512)), 5)),
           WordShr(WordAnd(p, Word(0, 248)), 3))

\* one element of ARGB32_TO_RGB888_PERLINE: 0xff000000 | pixel
RGB888(p) == WordOr(Word(65280, 0), p)

\* the bytes of a word in memory, and the word made of four bytes
WordBytes(w) == <<w.lo % 256, w.lo \div 256, w.hi % 256, w.hi \div 256>>
BytesWord(b) == Word(b[3] + 256 * b[4], b[1] + 256 * b[2])

\* ARGB32_TO_ARGB32_PERLINE: memcpy of width * sizeof(*dest) bytes
CopyBytes(pixels, width) ==
    LET bytes == [k \in 1..(4 * width) |->
                    WordBytes(pixels[((k - 1) \div 4) + 1])[((k - 1) % 4) + 1]]
    IN  [i \in 1..width |->
            BytesWord([j \in 1..4 |-> bytes[4 * (i - 1) + j]])]

\* FBDEV_PUT_SPAN_IMPL(bpp, op): the byte offset of dest and the 32-bit
\* words stored there
PutSpan(bpp, left, top, right, pixels, line_length) ==
    LET width == right - left
    IN  [off |-> 4 * left + top * line_length,
         words |-> CASE bpp = 16 -> [i \in 1..width |-> RGB565(pixels[i])]
                     [] bpp = 24 -> [i \in 1..width |-> RGB888(pixels[i])]
                     [] OTHER -> CopyBytes(pixels, width)]

\* sample pixels: every mask meets set and clear bits
PixelSamples ==
    {Word(h, l) : h \in {0, 248, 4660, 65287}, l \in {0, 1031, 22136, 64512}}
SpanRows == UNION {[1..n -> PixelSamples] : n \in 0..MaxSpan}

\* the geometry of the device: xres, yres, and fb_fix.line_length of a
\* device without row padding
ScreenWidth == 1 + MaxSpan
ScreenHeight == 2
LineLength(bpp) == ScreenWidth * (bpp \div 8)

SpanInputs ==
    {[op |-> "span_in", bpp |-> b, left |-> x, top |-> y,
      right |-> x + Len(row), pixels |-> row, line_length |-> LineLength(b)] :
        b \in {16, 24, 32}, x \in 0..1, y \in 0..(ScreenHeight - 1),
        row \in SpanRows}

InitSpan == InitState /\ probe \in SpanInputs

\* one call of the span writer for the depth
WriteSpan ==
    /\ probe.op = "span_in"
    /\ LET r == PutSpan(probe.bpp, probe.left, probe.top, probe.right,
                        probe.pixels, probe.line_length)
       IN  probe' = [op |-> "span_out", bpp |-> probe.bpp, left |-> probe.left,
                     top |-> probe.top, right |-> probe.right,
                     pixels |-> probe.pixels,
                     line_length |-> probe.line_length,
                     off |-> r.off, words |-> r.words]
    /\ UNCHANGED stateVars

NextSpan == WriteSpan

SpecSpan == InitSpan /\ [][NextSpan]_vars

(* ---------------------------------------------------------------------- *)
(* Properties                                                              *)
(* ---------------------------------------------------------------------- *)

\* a failed init call, and a context in use
InitFailed == init_result \notin {"none", "ok"}
BurstServed == ctx = "live" /\ pc = "idle" /\ burst.from = "fg"

\* C1 as stated: a burst of N signals delivered in Foreground before any
\* tick, followed by N ticks, yields N transitions, and the final state is
\* Foreground iff N is even.
C1_BurstYieldsNTransitions ==
    BurstServed /\ burst.n > 0 /\ burst.k = burst.n
        => /\ burst.t = burst.n
           /\ IsForeground <=> burst.n % 2 = 0

\* C1 amended: the signals of a burst delivered in Foreground before any tick
\* are coalesced in the one flag: once a tick has run after the burst exactly
\* one transition has been applied, whatever N, and the state is Background.
C1_BurstCoalesced ==
    BurstServed /\ burst.k >= 1 => burst.t = 1 /\ IsBackground

C1_Witness ==
    BurstServed /\ burst.n = 2 /\ burst.k = 2 /\ burst.t = 1 /\ IsBackground

\* C2: right after a successful init, before any signal, tick or damage, the
\* VT is in Foreground: vt_active is true and the buffer is mapped.
C2_InitForeground ==
    ctx = "live" /\ init_result = "ok" /\ trace = <<>>
        => vt_active /\ fb_base = "MAPPED"

\* C3: between init and exit the buffer pointer is a live mapping iff
\* vt_active, and it is the sentinel whenever vt_active is false.
C3_MappedIffActive ==
    ctx = "live"
        => /\ fb_base = "MAPPED" <=> vt_active
           /\ ~vt_active => fb_base = "MAP_FAILED"

\* C4: the tick never calls the span writer while the VT is in Background or
\* while the buffer pointer is the sentinel.
C4_TickFlushOnlyForeground ==
    span_log.via = "tick" => span_log.active /\ span_log.base = "MAPPED"

\* C5: from a successful init, one signal and one tick leave the backend in
\* Background, unmapped, the release acknowledged; one more signal and one
\* more tick leave it in Foreground, mapped, the full screen damaged.
C5_ReleaseThenAcquire ==
    ctx = "live" /\ init_result = "ok" /\ pc = "idle"
        => /\ trace = <<"sig", "tick">>
                => IsBackground /\ last_ack = "rel"
           /\ trace = <<"sig", "tick", "sig", "tick">>
                => IsForeground /\ last_ack = "acq" /\ last_damage = "full"

\* the three layouts the backend supports
SupportedFormat(v) ==
    \/ v.bits_per_pixel = 16 /\ v.red = Chan(11, 5) /\ v.green = Chan(5, 6)
         /\ v.blue = Chan(0, 5)
    \/ v.bits_per_pixel \in {24, 32} /\ v.red = Chan(16, 8)
         /\ v.green = Chan(8, 8) /\ v.blue = Chan(0, 8)

\* C6: init builds a screen only for one of the three supported layouts;
\* with any other depth or layout the configuration fails. (With an empty
\* trace fb_var is the format the init call negotiated.)
C6_FormatGate ==
    screen # "none" /\ trace = <<>> => SupportedFormat(fb_var)

\* C7: when the first init of a process fails, both descriptors are closed,
\* no mapping is left, both heap blocks are freed and the console is as it
\* was before the call.
C7_InitFailureUnwinds ==
    InitFailed /\ inits = 1
        => /\ fb_fd # "open" /\ vt_fd # "open"
           /\ liveMaps = 0
           /\ mem.ctx # "alloc" /\ mem.priv # "alloc"
           /\ console = TextConsole

C9_SecondExitNoop ==
    ctx = "freed" /\ exit_calls = 2
        => /\ ~crashed
           /\ calls.munmap = 1 /\ calls.close_vt = 1 /\ calls.close_fb = 1
           /\ calls.free_priv = 1 /\ calls.free_ctx = 1

\* C10: after exit the keyboard mode and the terminal attributes are the
\* ones saved by the VT setup and the console is in text mode, set once.
C10_TeardownRestores ==
    ctx = "freed" /\ exit_calls = 1
        => /\ console.kbmode = old_kbmode /\ console.tio = old_tio
           /\ console.kdmode = "text" /\ calls.kd_text = 1


\* C11: the mapped length is (smem_start mod pgsize) + smem_len rounded up to
\* a multiple of the page size: it equals roundDown(offset + smem_len +
\* pgsize - 1, pgsize), is a multiple of pgsize and covers offset + smem_len.
C11_MappedLength ==
    probe.op = "align_out"
        => LET need == (probe.smem_start % probe.pgsize) + probe.smem_len
           IN  /\ probe.fb_len
                    = ((need + probe.pgsize - 1) \div probe.pgsize)
                        * probe.pgsize
               /\ probe.fb_len % probe.pgsize = 0
               /\ probe.fb_len >= need

C11_Witness ==
    /\ probe.op = "align_out"
    /\ probe.smem_start % probe.pgsize # 0
    /\ probe.smem_len % probe.pgsize # 0
    /\ probe.fb_len > (probe.smem_start % probe.pgsize) + probe.smem_len


\* the channels of an ARGB8888 pixel
ChanA(p) == p.hi \div 256
ChanR(p) == p.hi % 256
ChanG(p) == p.lo \div 256
ChanB(p) == p.lo % 256

C13_NotifyFlushesInForeground ==
    /\ span_log.via = "notify" => span_log.active
    /\ ctx = "live" /\ pc = "idle" /\ obs.switch = "none" => ~damaged

\* C14: a signal delivered inside a tick that applies a transition is still
\* pending when the tick returns.
C14_MidTickSignalKept ==
    [][pc = "clear" /\ pc' = "idle" /\ obs.midsig => vt_switch_pending']_vars

\* C15: after a re-acquire whose configuration failed the backend is
\* inactive: vt_active is false and no buffer is mapped.
C15_FailedAcquireInactive ==
    ctx = "live" /\ pc = "idle" /\ obs.switch = "fg_failed"
        => ~vt_active /\ fb_base # "MAPPED"


\* a step of the running context
LiveStep == ctx = "live" /\ ctx' = "live"
\* the step of a tick that calls twin_fbdev_switch
SwitchStep == pc = "switch" /\ pc' = "clear"

\* C16: a tick applies at most one transition and only with the flag set;
\* the transition inverts vt_active; the flag is false when the tick
\* returns; nothing but the switch step of a tick changes the VT state or
\* the mapping; the damage is flushed before the transition.
C16_OneTransitionPerTick ==
    /\ [](pc = "switch" => vt_switch_pending /\ ~damaged)
    /\ [][pc = "idle" /\ pc' # "idle" => vt_switch_pending /\ pc' = "switch"]_vars
    /\ [][pc = "switch" /\ pc' # "switch" => pc' = "clear"]_vars
    /\ [][pc = "clear" /\ pc' # "clear"
            => pc' = "idle" /\ ~vt_switch_pending']_vars
    /\ [][LiveStep /\ (vt_active' # vt_active \/ fb_base' # fb_base
                         \/ liveMaps' # liveMaps)
            => SwitchStep /\ vt_active' = ~vt_active]_vars

C16_Witness ==
    pc = "clear" /\ obs.switch = "to_bg" /\ vt_switch_pending /\ IsBackground

\* C17: a transition to Background acknowledges the release, clears
\* vt_active and leaves the pointer at the sentinel; munmap is called, and
\* a mapping released, exactly when the pointer was not the sentinel.
C17_ToBackground ==
    [][SwitchStep /\ vt_active
         => /\ last_ack' = "rel"
            /\ ~vt_active' /\ fb_base' = "MAP_FAILED"
            /\ obs'.unmapped <=> fb_base # "MAP_FAILED"
            /\ liveMaps' = IF fb_base = "MAPPED" THEN liveMaps - 1
                           ELSE liveMaps]_vars

C17_Witness ==
    /\ pc = "clear" /\ obs.switch = "to_bg" /\ obs.unmapped
    /\ last_ack = "rel" /\ IsBackground

\* C18: a transition to Foreground acknowledges the acquisition; when the
\* configuration succeeds vt_active is true, the buffer is mapped and the
\* whole screen has been damaged, the damage pending or already flushed by
\* the notification.
C18_ToForeground ==
    [][SwitchStep /\ ~vt_active
         => /\ last_ack' = "acq"
            /\ obs'.switch = "to_fg"
                 => /\ vt_active' /\ fb_base' = "MAPPED"
                    /\ last_damage' = "full"
                    /\ damaged' \/ span_log'.via = "notify"]_vars

\* C19: one exit on a live context issues munmap only on a live mapping,
\* leaves no mapping behind, and issues the mode restore, the input
\* teardown, both closes and both frees once each.
C19_ExitReleasesOnce ==
    ctx = "freed" /\ exit_calls = 1
        => /\ calls.munmap = calls.munmap_live /\ liveMaps = 0
           /\ calls.kd_text = 1 /\ calls.input_destroy = 1
           /\ calls.close_vt = 1 /\ calls.close_fb = 1
           /\ calls.free_priv = 1 /\ calls.free_ctx = 1

\* C20: no FBIOGET_VSCREENINFO is issued by twin_fbdev_configure while the
\* VT is released.
C20_NoIoctlInBackground ==
    obs.ioctl # "bg"

\* what the signal handler must leave alone: the context, its descriptors,
\* the mapping, the screen and every trace of device or terminal I/O
HandlerFrame ==
    <<txVars, screenVars, osVars, lifeVars, liveMaps, pc, crashed, calls,
      span_log, last_damage, last_ack, obs.switch, obs.unmapped, obs.ioctl>>

\* C21: a step that raises the flag, or that delivers a signal inside a
\* tick, changes nothing of the context and issues no I/O, and leaves the
\* flag set.
C21_HandlerOnlySetsFlag ==
    /\ [][~vt_switch_pending /\ vt_switch_pending'
            => UNCHANGED HandlerFrame]_vars
    /\ [][~obs.midsig /\ obs'.midsig
            => vt_switch_pending' /\ UNCHANGED HandlerFrame]_vars

C21_Witness ==
    /\ ctx = "live" /\ pc = "idle" /\ vt_switch_pending
    /\ IsForeground /\ last_ack = "acq" /\ burst.n = 1 /\ burst.k = 0

\* the context is gone or the process was killed
Stopped == ctx # "live" \/ crashed

\* C22: with ticks scheduled fairly, a set flag leads a running backend to
\* the switch step of a tick, that step is taken, and the tick then clears
\* the flag; only the end of a tick lowers the flag and only a delivery of
\* the signal raises it.
C22_PendingServed ==
    /\ (vt_switch_pending /\ ctx = "live" /\ pc = "idle")
          ~> (pc = "switch" \/ Stopped)
    /\ (pc = "switch") ~> (pc = "clear" \/ Stopped)
    /\ (pc = "clear") ~> (~vt_switch_pending \/ Stopped)
    /\ [][vt_switch_pending /\ ~vt_switch_pending'
            => pc = "clear" /\ pc' = "idle"]_vars
    /\ [][~vt_switch_pending /\ vt_switch_pending'
            => sighandler = "vtswitch" /\ pc' = pc]_vars

C22_Witness ==
    /\ ctx = "live" /\ pc = "idle" /\ ~vt_switch_pending /\ ~crashed
    /\ obs.switch = "to_bg" /\ trace = <<"sig", "tick", "sig", "tick">>

\* the VT session: what twin_fbdev_setup_vt and twin_fbdev_init establish
VTSession ==
    <<vt_fd, fb_fd, vt_swsig, old_kbmode, old_tio, input, sighandler>>

\* C23: no step of a running context, a transition in either direction
\* included, changes the descriptors, the switch signal or the saved
\* keyboard mode and terminal attributes.
C23_SessionPersists ==
    [][LiveStep => UNCHANGED VTSession]_vars

C23_Witness ==
    /\ ctx = "live" /\ pc = "idle" /\ last_ack = "rel" /\ IsBackground
    /\ trace = <<"sig", "tick", "sig", "tick">>
    /\ vt_fd = "open" /\ fb_fd = "open" /\ vt_swsig = SIGUSR1

\* C24: at most one framebuffer mapping of the process is live.
C24_OneMapping ==
    liveMaps <= 1

\* C25: when init has created a screen, bits_per_pixel / 8 - 2 is an index
\* of fbdev_put_spans and the screen is bound to the writer of the
\* negotiated depth. (With an empty trace fb_var is the format the init call
\* negotiated.)
C25_SpanWriterIndex ==
    screen # "none" /\ trace = <<>>
        => LET idx == (fb_var.bits_per_pixel \div 8) - 2
           IN  /\ idx \in 0..2
               /\ put_span = fbdev_put_spans[idx + 1]

\* the bytes stored by one call: Len(words) 32-bit words from off on
SpanBytes == probe.off .. (probe.off + 4 * Len(probe.words) - 1)

\* C26: every byte a writer stores lies in the span's part of its row,
\* from top * stride + left * pixelSize up to top * stride + right *
\* pixelSize, and inside the ScreenHeight * stride bytes of the device.
C26_SpanInBuffer ==
    probe.op = "span_out"
        => LET size == probe.bpp \div 8
               stride == ScreenWidth * size
           IN  \A b \in SpanBytes :
                  /\ probe.top * stride + probe.left * size <= b
                  /\ b < probe.top * stride + probe.right * size
                  /\ b < ScreenHeight * stride

\* C27: a context returned by init starts with the flag clear. (With an
\* empty trace no signal and no tick followed the init call.)
C27_InitClearsPending ==
    ctx = "live" /\ trace = <<>> => ~vt_switch_pending

====
